---- MODULE Spec2Model ----
(***************************************************************************)
(* A model of library/src/layout/columns.rs: ColumnsNode::layout, which    *)
(* splits a region into columns, lays its child out against the derived    *)
(* pod regions and stitches the child's frames into one frame per region,  *)
(* and ColbreakNode, whose behaviour classifies a column break.            *)
(*                                                                         *)
(* Lengths (Abs, an f64 number of points) are modelled as exact integers   *)
(* counting 1/Scale pt, with Scale chosen so that every quotient the       *)
(* layout forms is whole.  Floating-point rounding is not modelled: the    *)
(* results below are results about the exact arithmetic of the algorithm.  *)
(***************************************************************************)
EXTENDS Integers, Sequences, FiniteSets

\* ------------------------------------------------------------------ bounds

\* The largest column count the inputs take (columns is a NonZeroUsize).
MaxColumns == 3
\* The longest backlog of the regions handed to layout.
MaxBacklog == 1
\* The most frames the child's Fragment holds.
MaxFrames == 6
\* The most column breaks the content stream of SpecBreak holds.
MaxBreaks == 4

\* ------------------------------------------------------------ arithmetic

RECURSIVE Gcd(_, _)
Gcd(a, b) == IF b = 0 THEN a ELSE Gcd(b, a % b)

RECURSIVE LcmUpTo(_)
LcmUpTo(n) == IF n <= 1 THEN 1 ELSE (LcmUpTo(n - 1) * n) \div Gcd(LcmUpTo(n - 1), n)

\* Lengths count 1/Scale pt, so that a division by any column count is exact.
Scale == LcmUpTo(MaxColumns)
Pt(n) == n * Scale

\* f64::INFINITY, the width of an unbounded region.
Inf == 1000000000

IsFiniteOff(x) == TRUE
\* f64::is_finite, as used on regions.first.x.
IsFinite(x) == x # Inf

Max(a, b) == IF a >= b THEN a ELSE b

\* Option<T> is a sequence of at most one element.
None == << >>
Some(v) == << v >>

\* ------------------------------------------------------------------ frames

Size(x, y) == [x |-> x, y |-> y]
PointWithX(x) == [x |-> x, y |-> 0]

\* Frame::new: a frame of the given size without items.
FrameNew(size) == [size |-> size, items |-> << >>]

\* Frame::push_frame: the child frame becomes the last item, at pos.
PushFrame(output, pos, frame) ==
    [output EXCEPT !.items = Append(@, [pos |-> pos, frame |-> frame])]

SetMaxMin(y, h) == IF y <= h THEN y ELSE h
\* Abs::set_max on the output frame's height.
SetMax(y, h) == Max(y, h)

\* SourceResult<Fragment>: Ok(frames) or Err(error).
Ok(frames) == [ok |-> TRUE, frames |-> frames, err |-> "none"]
Err(e) == [ok |-> FALSE, frames |-> << >>, err |-> e]
NoResult == [ok |-> FALSE, frames |-> << >>, err |-> "pending"]

IsErrNever(res) == FALSE
\* The ? operator's test: whether the result is an Err, to be returned.
IsErr(res) == ~res.ok

\* ----------------------------------------------------------------- regions

\* The height of the i-th region of a region sequence (0-based), as
\* Regions::next walks it: first, then the backlog, then `last` for ever;
\* without `last` the sequence stays at its final region.
RegionHeight(regs, i) ==
    IF i = 0 THEN regs.first.y
    ELSE IF i <= Len(regs.backlog) THEN regs.backlog[i]
    ELSE IF regs.last # None THEN regs.last[1]
    ELSE IF regs.backlog # << >> THEN regs.backlog[Len(regs.backlog)]
    ELSE regs.first.y

\* Regions::iter: the sizes of the first and all following regions.  It is
\* first, then the backlog, then `last` repeated for ever; without `last` it
\* ends after the backlog.  HasRegion says whether the iterator yields an
\* i-th item (0-based), IterRegion is that item.
HasRegion(regs, i) == i <= Len(regs.backlog) \/ regs.last # None
IterRegion(regs, i) == Size(regs.first.x, RegionHeight(regs, i))

\* ------------------------------------------------------------------- child

\* The sizes a child's frames have when nothing stretches them.
NaturalWidth(kind, i) == IF kind = "ragged" THEN Pt(20 * (1 + (i % 3))) ELSE Pt(50)
NaturalHeight(i) == Pt(10 * (1 + ((2 * i) % 3)))

\* The i-th frame (1-based) a child lays out against regs.  A "fill" child
\* honours the expand flags: it is as wide as the region when expand.x is
\* set and as high as the region it lands in when expand.y is set.  The
\* other kinds ignore the regions.
ChildFrame(c, regs, i) ==
    [id |-> i,
     size |-> IF c.kind = "fill"
              THEN Size(IF regs.expand.x THEN regs.first.x ELSE NaturalWidth(c.kind, i),
                        IF regs.expand.y THEN RegionHeight(regs, i - 1) ELSE NaturalHeight(i))
              ELSE Size(NaturalWidth(c.kind, i), NaturalHeight(i))]

\* Content::layout of the child: an error, or c.n frames in reading order.
ChildLayout(c, regs) ==
    IF c.kind = "error" THEN Err("child")
    ELSE Ok([i \in 1..c.n |-> ChildFrame(c, regs, i)])

\* ----------------------------------------------------------------- columns

\* Rel<Length>::relative_to: the ratio (in percent) of the whole, plus the
\* absolute part.
RelativeTo(rel, whole) == (rel.pct * whole) \div 100 + rel.abs

\* ColumnsNode::GUTTER, the default gutter: 4% of the base width.
DefaultGutterPct == 4

ColumnWidthAllGutters(first_x, gutter, columns) == (first_x - gutter * columns) \div columns
\* let width = (regions.first.x - gutter * (columns - 1) as f64) / columns as f64;
ColumnWidth(first_x, gutter, columns) == (first_x - gutter * (columns - 1)) \div columns

\* flat_map(|&height| repeat(height).take(columns)) over a sequence.
RECURSIVE FlatMapRepeat(_, _)
FlatMapRepeat(heights, columns) ==
    IF heights = << >> THEN << >>
    ELSE [i \in 1..columns |-> Head(heights)] \o FlatMapRepeat(Tail(heights), columns)

\* Iterator::skip(n) followed by collect.
Skip(seq, n) == SubSeq(seq, n + 1, Len(seq))

PodBacklogNoSkip(regs, columns) == FlatMapRepeat(<< regs.first.y >> \o regs.backlog, columns)
\* once(&regions.first.y).chain(backlog).flat_map(repeat.take(columns)).skip(1)
PodBacklog(regs, columns) ==
    Skip(FlatMapRepeat(<< regs.first.y >> \o regs.backlog, columns), 1)

PodKeepExpand(regs, width, columns) ==
    [first |-> Size(width, regs.first.y),
     base |-> Size(width, regs.base.y),
     backlog |-> PodBacklog(regs, columns),
     last |-> regs.last,
     expand |-> regs.expand]
\* let pod = Regions { first, base, backlog, last, expand }
Pod(regs, width, columns) ==
    [first |-> Size(width, regs.first.y),
     base |-> Size(width, regs.base.y),
     backlog |-> PodBacklog(regs, columns),
     last |-> regs.last,
     expand |-> [x |-> TRUE, y |-> regs.expand.y]]

\* (frames.len() as f32 / columns as f32).ceil() as usize.  The f32 quotient
\* and its ceiling are exact for every count below 2^24, far above MaxFrames.
TotalRegions(len, columns) == (len + columns - 1) \div columns

InitialHeightOffered(expand_y, region) == region.y
\* let height = if regions.expand.y { region.y } else { Abs::zero() };
InitialHeight(expand_y, region) == IF expand_y THEN region.y ELSE 0

PlaceXNoWidth(dir, cursor, first_x, width) ==
    IF dir = "ltr" THEN cursor ELSE first_x - cursor
\* let x = if dir.is_positive() { cursor } else { regions.first.x - cursor - width };
PlaceX(dir, cursor, first_x, width) ==
    IF dir = "ltr" THEN cursor ELSE first_x - cursor - width

\* cursor += width + gutter;
Advance(cursor, width, gutter) == cursor + width + gutter

\* ---------------------------------------------------------------- colbreak

BehaviourSwapped(weak) == IF weak THEN [tag |-> "Destructive"] ELSE [tag |-> "Weak", level |-> 1]
\* ColbreakNode::behaviour.
Behaviour(weak) == IF weak THEN [tag |-> "Weak", level |-> 1] ELSE [tag |-> "Destructive"]

\* args.named("weak")?.unwrap_or(false)
UnwrapOr(opt, default) == IF opt = None THEN default ELSE opt[1]

\* ------------------------------------------------------------------- state

VARIABLES
    node,           \* the ColumnsNode: columns and child
    styles,         \* the style chain: the gutter and the text direction
    regions,        \* the regions layout is called with
    pc,             \* where layout stands
    columns,        \* let columns
    gutter,         \* let gutter
    width,          \* let width
    pod,            \* let pod, None before it is built
    calls,          \* the calls of the child's layout: regions and result
    frames,         \* the iterator over the child's frames: what is left
    finished,       \* let mut finished
    total_regions,  \* let total_regions
    taken,          \* how many regions the for loop has drawn from regions.iter()
    output,         \* let mut output, None between regions
    cursor,         \* let mut cursor
    col,            \* the index of the inner loop, 0..columns
    result,         \* what layout returned
    stream,         \* SpecBreak: the `weak` arguments of the breaks constructed
    nodes,          \* SpecBreak: the ColbreakNodes constructed
    tags            \* SpecBreak: the Behaviours the sequencer has read

layoutVars == << node, styles, regions, pc, columns, gutter, width, pod, calls,
                 frames, finished, total_regions, taken, output, cursor, col, result >>
breakVars == << stream, nodes, tags >>
vars == << node, styles, regions, pc, columns, gutter, width, pod, calls,
           frames, finished, total_regions, taken, output, cursor, col, result,
           stream, nodes, tags >>

\* ------------------------------------------------------------------ inputs

Children ==
    {[kind |-> "error", n |-> 0]} \cup [kind : {"fill", "equal", "ragged"}, n : 0..MaxFrames]

Gutters ==
    {[pct |-> DefaultGutterPct, abs |-> 0], [pct |-> 0, abs |-> 0],
     [pct |-> 0, abs |-> Pt(10)], [pct |-> 0, abs |-> Pt(400)]}

Dirs == {"ltr", "rtl"}

BacklogOf(n) == [i \in 1..n |-> Pt(700 - 100 * i)]

RegionsSet ==
    [first : {Size(x, Pt(700)) : x \in {Pt(300), Pt(310), Inf}},
     base : {Size(Pt(300), Pt(800))},
     backlog : {BacklogOf(n) : n \in 0..MaxBacklog},
     last : {None, Some(Pt(200))},
     expand : [x : BOOLEAN, y : BOOLEAN]]

Locals ==
    /\ columns = 0
    /\ gutter = 0
    /\ width = 0
    /\ pod = None
    /\ calls = << >>
    /\ frames = << >>
    /\ finished = << >>
    /\ total_regions = 0
    /\ taken = 0
    /\ output = None
    /\ cursor = 0
    /\ col = 0
    /\ result = NoResult

NoBreaks ==
    /\ stream = << >>
    /\ nodes = << >>
    /\ tags = << >>

Init ==
    /\ node \in [columns : 1..MaxColumns, child : Children]
    /\ styles \in [gutter : Gutters, dir : Dirs]
    /\ regions \in RegionsSet
    /\ pc = "start"
    /\ Locals
    /\ NoBreaks

\* ------------------------------------------------------------------ layout

\* if !regions.first.x.is_finite() { return self.child.layout(world, styles, regions); }
Degenerate ==
    /\ pc = "start"
    /\ ~IsFinite(regions.first.x)
    /\ calls' = Append(calls, [regions |-> regions, result |-> ChildLayout(node.child, regions)])
    /\ result' = ChildLayout(node.child, regions)
    /\ pc' = "done"
    /\ UNCHANGED << node, styles, regions, columns, gutter, width, pod, frames,
                    finished, total_regions, taken, output, cursor, col >>
    /\ UNCHANGED breakVars

\* Determine the width of the gutter and each column; create the pod regions.
MakePod ==
    /\ pc = "start"
    /\ IsFinite(regions.first.x)
    /\ LET c == node.columns
           g == RelativeTo(styles.gutter, regions.base.x)
           w == ColumnWidth(regions.first.x, g, c)
       IN /\ columns' = c
          /\ gutter' = g
          /\ width' = w
          /\ pod' = Some(Pod(regions, w, c))
    /\ pc' = "layout"
    /\ UNCHANGED << node, styles, regions, calls, frames, finished, total_regions,
                    taken, output, cursor, col, result >>
    /\ UNCHANGED breakVars

\* let mut frames = self.child.layout(world, styles, &pod)?.into_iter();
\* The ? returns the child's error from layout.
LayoutChild ==
    /\ pc = "layout"
    /\ LET res == ChildLayout(node.child, pod[1])
       IN /\ calls' = Append(calls, [regions |-> pod[1], result |-> res])
          /\ IF IsErr(res)
             THEN /\ result' = res
                  /\ pc' = "done"
                  /\ UNCHANGED << frames, finished, total_regions >>
             ELSE /\ frames' = res.frames
                  /\ finished' = << >>
                  /\ total_regions' = TotalRegions(Len(res.frames), columns)
                  /\ pc' = "regions"
                  /\ UNCHANGED result
    /\ UNCHANGED << node, styles, regions, columns, gutter, width, pod, taken,
                    output, cursor, col >>
    /\ UNCHANGED breakVars

\* for region in regions.iter().take(total_regions): the loop draws its next
\* region and starts the output frame.
BeginRegion ==
    /\ pc = "regions"
    /\ taken < total_regions
    /\ HasRegion(regions, taken)
    /\ LET region == IterRegion(regions, taken)
           height == InitialHeight(regions.expand.y, region)
       IN output' = Some(FrameNew(Size(regions.first.x, height)))
    /\ cursor' = 0
    /\ col' = 0
    /\ taken' = taken + 1
    /\ pc' = "columns"
    /\ UNCHANGED << node, styles, regions, columns, gutter, width, pod, calls,
                    frames, finished, total_regions, result >>
    /\ UNCHANGED breakVars

\* for _ in 0..columns { let Some(frame) = frames.next() else { break }; ... }
PlaceFrame ==
    /\ pc = "columns"
    /\ col < columns
    /\ frames # << >>
    /\ LET frame == Head(frames)
           sized == IF ~regions.expand.y
                    THEN [output[1] EXCEPT !.size.y = SetMax(@, frame.size.y)]
                    ELSE output[1]
           w == frame.size.x
           x == PlaceX(styles.dir, cursor, regions.first.x, w)
       IN /\ output' = Some(PushFrame(sized, PointWithX(x), frame))
          /\ cursor' = Advance(cursor, w, gutter)
    /\ frames' = Tail(frames)
    /\ col' = col + 1
    /\ UNCHANGED << node, styles, regions, pc, columns, gutter, width, pod, calls,
                    finished, total_regions, taken, result >>
    /\ UNCHANGED breakVars

\* The inner loop ends (all columns filled, or no frame left):
\* finished.push(output);
EndRegion ==
    /\ pc = "columns"
    /\ (col >= columns \/ frames = << >>)
    /\ finished' = Append(finished, output[1])
    /\ output' = None
    /\ pc' = "regions"
    /\ UNCHANGED << node, styles, regions, columns, gutter, width, pod, calls,
                    frames, total_regions, taken, cursor, col, result >>
    /\ UNCHANGED breakVars

\* The outer loop ends (total_regions taken, or regions.iter() is exhausted):
\* Ok(Fragment::frames(finished))
Return ==
    /\ pc = "regions"
    /\ (taken >= total_regions \/ ~HasRegion(regions, taken))
    /\ result' = Ok(finished)
    /\ pc' = "done"
    /\ UNCHANGED << node, styles, regions, columns, gutter, width, pod, calls,
                    frames, finished, total_regions, taken, output, cursor, col >>
    /\ UNCHANGED breakVars

Next ==
    \/ Degenerate
    \/ MakePod
    \/ LayoutChild
    \/ BeginRegion
    \/ PlaceFrame
    \/ EndRegion
    \/ Return

Spec == Init /\ [][Next]_vars

\* ---------------------------------------------------------- column breaks

WeakArgs == {None, Some(TRUE), Some(FALSE)}

\* No layout runs in SpecBreak: the layout state is that of a node at rest.
InitBreak ==
    /\ node = [columns |-> 1, child |-> [kind |-> "fill", n |-> 0]]
    /\ styles = [gutter |-> [pct |-> DefaultGutterPct, abs |-> 0], dir |-> "ltr"]
    /\ regions = [first |-> Size(Pt(300), Pt(700)), base |-> Size(Pt(300), Pt(800)),
                  backlog |-> << >>, last |-> None, expand |-> [x |-> TRUE, y |-> TRUE]]
    /\ pc = "idle"
    /\ Locals
    /\ NoBreaks

\* ColbreakNode::construct: let weak = args.named("weak")?.unwrap_or(false);
Construct ==
    /\ Len(stream) < MaxBreaks
    /\ \E arg \in WeakArgs :
          /\ stream' = Append(stream, arg)
          /\ nodes' = Append(nodes, [weak |-> UnwrapOr(arg, FALSE)])
    /\ UNCHANGED tags
    /\ UNCHANGED layoutVars

\* The sequencer reads the behaviour of the next break of the stream.
ReadBehaviour ==
    /\ Len(tags) < Len(nodes)
    /\ tags' = Append(tags, Behaviour(nodes[Len(tags) + 1].weak))
    /\ UNCHANGED << stream, nodes >>
    /\ UNCHANGED layoutVars

NextBreak ==
    \/ Construct
    \/ ReadBehaviour

SpecBreak == InitBreak /\ [][NextBreak]_vars

\* ------------------------------------------------------------------ claims

\* What the claims speak of, read off the state.
Done == pc = "done"
Finite == regions.first.x # Inf
ChildResult == calls[1].result
ChildFrames == calls[1].result.frames
Split == Done /\ Finite /\ Len(calls) = 1 /\ calls[1].result.ok
GutterOf == (styles.gutter.pct * regions.base.x) \div 100 + styles.gutter.abs

\* The least n with n * c >= k.
Ceil(k, c) == CHOOSE n \in 0..k : n * c >= k /\ (n = 0 \/ (n - 1) * c < k)

RECURSIVE SumItems(_)
SumItems(fs) == IF fs = << >> THEN 0 ELSE Len(Head(fs).items) + SumItems(Tail(fs))

\* The height of the r-th region (0-based) of the original sequence.
OrigHeight(r) ==
    IF r = 0 THEN regions.first.y
    ELSE IF r <= Len(regions.backlog) THEN regions.backlog[r]
    ELSE regions.last[1]

\* The cursor before the j-th placement (0-based) of an output frame.
RECURSIVE CursorBefore(_, _)
CursorBefore(items, j) ==
    IF j = 0 THEN 0
    ELSE CursorBefore(items, j - 1) + items[j].frame.size.x + GutterOf

\* C1: for a finite first.x and a child Fragment of k frames, layout returns
\* exactly ceil(k / columns) frames whose placements sum to k (k = 0: an empty
\* Fragment, not an error), whatever the region sequence.
C1_FrameCount ==
    Split =>
        /\ result.ok
        /\ Len(result.frames) = Ceil(Len(ChildFrames), node.columns)
        /\ SumItems(result.frames) = Len(ChildFrames)

\* C2: every child frame is placed exactly once and in reading order: the
\* i-th child frame (0-based) is placement i mod columns of output frame
\* floor(i / columns), and nothing else is placed.
C2_ReadingOrder ==
    Split =>
        /\ \A i \in 0..(Len(ChildFrames) - 1) :
              LET r == i \div node.columns
                  j == i % node.columns
              IN /\ r + 1 <= Len(result.frames)
                 /\ j + 1 <= Len(result.frames[r + 1].items)
                 /\ result.frames[r + 1].items[j + 1].frame = ChildFrames[i + 1]
        /\ SumItems(result.frames) = Len(ChildFrames)

\* Whether an output frame shows exactly the given child frame: same size,
\* the child frame its only item, at the origin.
ShowsOnly(out, frame) ==
    /\ out.size = frame.size
    /\ out.items = << [pos |-> [x |-> 0, y |-> 0], frame |-> frame] >>

SameFragment(res, direct) ==
    /\ res.ok = direct.ok
    /\ res.err = direct.err
    /\ Len(res.frames) = Len(direct.frames)
    /\ \A r \in 1..Len(res.frames) : ShowsOnly(res.frames[r], direct.frames[r])

\* C3 as stated: with columns = 1 and a finite first.x the child is handed
\* the original regions and layout returns what the child returns for them.
C3_PassThrough ==
    (Done /\ Finite /\ node.columns = 1) =>
        /\ calls[1].regions = regions
        /\ SameFragment(result, ChildLayout(node.child, regions))

\* C3 as amended: with columns = 1 and a finite first.x the pod is the
\* original regions with base.x replaced by first.x and expand.x forced true
\* (so it is the original exactly when base.x = first.x and expand.x holds);
\* layout fails exactly when the child does, every frame returned holds only
\* the child's frame of the same index, and shows exactly that frame when the
\* frame is first.x wide and, under expand.y, as high as its region.
C3_PodOfOneColumn ==
    (Done /\ Finite /\ node.columns = 1) =>
        /\ Len(calls) = 1
        /\ calls[1].regions =
              [regions EXCEPT !.base.x = regions.first.x, !.expand.x = TRUE]
        /\ (calls[1].regions = regions) <=>
              (regions.base.x = regions.first.x /\ regions.expand.x)
        /\ result.ok = ChildResult.ok
        /\ Len(result.frames) <= Len(ChildFrames)
        /\ \A r \in 1..Len(result.frames) :
              LET f == ChildFrames[r]
                  out == result.frames[r]
              IN /\ Len(out.items) = 1
                 /\ out.items[1].frame = f
                 /\ out.items[1].pos.y = 0
                 /\ (/\ f.size.x = regions.first.x
                     /\ regions.expand.y => f.size.y = OrigHeight(r - 1))
                        => ShowsOnly(out, f)

C3_Witness ==
    /\ Done /\ Finite /\ node.columns = 1
    /\ regions.base.x # regions.first.x
    /\ ~regions.expand.x
    /\ result.ok
    /\ Len(result.frames) >= 2
    /\ node.child.kind = "fill"

\* C4: when first.x is not finite, the child is laid out once against the
\* unmodified regions and its result, Fragment or error, is returned as it
\* is: no pod is derived and nothing is regrouped, for any column count.
C4_Degenerate ==
    (Done /\ regions.first.x = Inf) =>
        /\ Len(calls) = 1
        /\ calls[1].regions = regions
        /\ result = calls[1].result
        /\ pod = None
        /\ finished = << >>
        /\ output = None
        /\ taken = 0

C4_Witness ==
    /\ Done /\ regions.first.x = Inf
    /\ node.columns = MaxColumns
    /\ result.ok
    /\ Len(result.frames) >= 2

\* C5: layout is all-or-nothing: if the child's layout fails, layout returns
\* that error and no frames; if it succeeds, layout returns a Fragment; the
\* child is laid out once, and nothing is returned before layout is done.
C5_AllOrNothing ==
    /\ ~Done => result = NoResult
    /\ Done =>
          /\ Len(calls) = 1
          /\ ~ChildResult.ok => (result = ChildResult /\ result.frames = << >>
                                    /\ finished = << >>)
          /\ ChildResult.ok => result.ok

C5_Witness ==
    /\ Done /\ Finite
    /\ ~ChildResult.ok
    /\ result = [ok |-> FALSE, frames |-> << >>, err |-> "child"]
    /\ node.columns > 1

\* C6: the behaviour of a column break is Weak(1) when it was constructed
\* with weak = true and Destructive when weak was false or omitted; nothing
\* else is ever returned.
C6_Behaviour ==
    \A i \in 1..Len(tags) :
        /\ stream[i] = << TRUE >> => tags[i] = [tag |-> "Weak", level |-> 1]
        /\ stream[i] \in {<< >>, << FALSE >>} => tags[i] = [tag |-> "Destructive"]
        /\ tags[i] \in {[tag |-> "Weak", level |-> 1], [tag |-> "Destructive"]}

C6_Witness ==
    /\ Len(tags) >= 3
    /\ \E i, j, k \in 1..Len(tags) :
          /\ stream[i] = << >> /\ tags[i] = [tag |-> "Destructive"]
          /\ stream[j] = << TRUE >> /\ tags[j] = [tag |-> "Weak", level |-> 1]
          /\ stream[k] = << FALSE >> /\ tags[k] = [tag |-> "Destructive"]

\* The height of the pod's i-th region (0-based): its first region, then its
\* backlog.
PodHeight(p, i) == IF i = 0 THEN p.first.y ELSE p.backlog[i]

\* C7: pod region i has the height of original region floor(i / columns),
\* the pod backlog has columns * (len(backlog) + 1) - 1 entries, and `last`
\* is passed through unchanged.
C7_PodHeights ==
    pod # None =>
        LET p == pod[1]
            c == node.columns
        IN /\ Len(p.backlog) = c * (Len(regions.backlog) + 1) - 1
           /\ \A i \in 0..Len(p.backlog) : PodHeight(p, i) = OrigHeight(i \div c)
           /\ p.last = regions.last

C7_Witness ==
    /\ pod # None
    /\ node.columns = MaxColumns
    /\ Len(regions.backlog) >= 1
    /\ regions.last # None
    /\ pod[1].backlog[MaxColumns] = regions.backlog[1]

\* The output frames built so far: the finished ones and the one under
\* construction.
Built == finished \o output

\* The placement formula: the j-th item (0-based) of an output frame lies at
\* the cursor for left-to-right text and at first.x - cursor - width for
\* right-to-left text, the cursor starting at 0 and advancing by the frame's
\* width plus the gutter after every placement.
PlacedByCursor ==
    /\ \A r \in 1..Len(Built) :
          \A j \in 0..(Len(Built[r].items) - 1) :
              LET it == Built[r].items[j + 1]
                  cur == CursorBefore(Built[r].items, j)
              IN /\ styles.dir = "ltr" => it.pos.x = cur
                 /\ styles.dir = "rtl" =>
                        it.pos.x = regions.first.x - cur - it.frame.size.x
    /\ pc = "columns" => cursor = CursorBefore(output[1].items, Len(output[1].items))

\* A full row of frames that all have width w.
FullRowOf(out, w) ==
    /\ Len(out.items) = node.columns
    /\ \A j \in 1..Len(out.items) : out.items[j].frame.size.x = w

\* The x offset the j-th frame (0-based) of a row of frames of width w has
\* in left-to-right text.
LtrOffset(j, w) == j * (w + GutterOf)

\* In a full row of frames of width w, right-to-left text mirrors the
\* offsets of left-to-right text: frame j lies where frame columns-1-j lies
\* in left-to-right text, so both directions use the same set of offsets.
Mirrored(out, w) ==
    LET c == node.columns
    IN /\ styles.dir = "ltr" =>
             \A j \in 0..(c - 1) : out.items[j + 1].pos.x = LtrOffset(j, w)
       /\ styles.dir = "rtl" =>
             /\ \A j \in 0..(c - 1) : out.items[j + 1].pos.x = LtrOffset(c - 1 - j, w)
             /\ {out.items[j].pos.x : j \in 1..c} = {LtrOffset(j, w) : j \in 0..(c - 1)}
             /\ out.items[1].pos.x = regions.first.x - w

\* C8 as stated: placements follow the cursor formula, and hence in every
\* full row of equal-width frames the offsets of the two directions mirror
\* each other.
C8_MirrorEqualWidths ==
    /\ PlacedByCursor
    /\ \A r \in 1..Len(finished) :
          \A w \in {finished[r].items[j].frame.size.x : j \in 1..Len(finished[r].items)} :
              FullRowOf(finished[r], w) => Mirrored(finished[r], w)

\* C8 as amended: placements follow the cursor formula; the offsets of the
\* two directions mirror each other in every full row whose frames are as
\* wide as the pod, that is when columns * width + (columns - 1) * gutter is
\* first.x.
C8_MirrorPodWidths ==
    /\ PlacedByCursor
    /\ \A r \in 1..Len(finished) :
          FullRowOf(finished[r], width) => Mirrored(finished[r], width)

C8_Witness ==
    /\ Done
    /\ styles.dir = "rtl"
    /\ node.columns = 3
    /\ GutterOf > 0
    /\ width > 0
    /\ Len(finished) >= 2
    /\ FullRowOf(finished[2], width)
    /\ finished[2].items[1].pos.x > finished[2].items[2].pos.x

\* The greatest height among the frames placed in an output frame.
MaxPlaced(out) ==
    CHOOSE h \in {out.items[j].frame.size.y : j \in 1..Len(out.items)} :
        \A j \in 1..Len(out.items) : out.items[j].frame.size.y <= h

\* C9: every output frame is first.x wide; it is as high as its region when
\* expand.y is set, and otherwise as high as the highest frame placed in it.
C9_OutputSize ==
    \A r \in 1..Len(finished) :
        /\ finished[r].size.x = regions.first.x
        /\ regions.expand.y => finished[r].size.y = OrigHeight(r - 1)
        /\ ~regions.expand.y =>
              /\ finished[r].items # << >>
              /\ finished[r].size.y = MaxPlaced(finished[r])
              /\ \A j \in 1..Len(finished[r].items) :
                    finished[r].items[j].frame.size.y <= finished[r].size.y

C9_Witness ==
    /\ Done
    /\ ~regions.expand.y
    /\ node.columns >= 2
    /\ Len(finished) >= 2
    /\ Len(finished[1].items) >= 2
    /\ Len(finished[2].items) >= 2
    /\ finished[1].items[1].frame.size.y > finished[1].items[2].frame.size.y
    /\ finished[2].items[1].frame.size.y < finished[2].items[2].frame.size.y
    /\ finished[2].size.y < OrigHeight(1)

\* The child's frames are all as wide as the pod.
PodWide == \A i \in 1..Len(ChildFrames) : ChildFrames[i].size.x = pod[1].first.x

====
